---- MODULE Spec2Model ----
(***************************************************************************)
(* Model of src/main.cpp: the dense block MLPImpl, the two-hop graph       *)
(* convolution GATConvImpl, the stacked network NNImpl and the training    *)
(* loop of main.                                                           *)
(*                                                                         *)
(* A 2-D tensor is a record [rows, cols, data], data[i][j] being the entry *)
(* of row i-1, column j-1.  An index tensor (one row of edge_index) is a   *)
(* sequence of 0-based integers, as in the source.  Entries are integers:  *)
(* sums are exact, floating-point rounding is not represented.             *)
(* A tensor operation yields a result record [err, t]: err is "none" and t *)
(* the tensor, or err names the exception the operation throws.            *)
(***************************************************************************)
EXTENDS Integers, Sequences, FiniteSets, TLC

\* ---------------------------------------------------------------- bounds
MaxHiddenLen == 2
MaxNodes == 2
MaxEdges == 2
MaxK == 3
MaxEpochs == 2

\* ------------------------------------------------------- tensor library
NoTensor == [rows |-> 0, cols |-> 0, data |-> <<>>]

Ok(t) == [err |-> "none", t |-> t]

Err(e) == [err |-> e, t |-> NoTensor]

\* The r x c tensor with the entries d, d[i][j] for i in 1..r and j in 1..c.
Mat(r, c, d) == [rows |-> r, cols |-> c, data |-> d]

\* torch::zeros({r, c})
zeros(r, c) == Mat(r, c, [i \in 1..r |-> [j \in 1..c |-> 0]])

\* self.index_select(0, index): row index[i] of self for every i; an index
\* outside [0, self.rows) throws ("index out of range in self").
index_select(self, index) ==
    IF \E i \in 1..Len(index) : index[i] < 0 \/ index[i] >= self.rows
    THEN Err("IndexError")
    ELSE Ok(Mat(Len(index), self.cols,
                [i \in 1..Len(index) |-> [j \in 1..self.cols |-> self.data[index[i] + 1][j]]]))

\* torch::cat({a, b}, -1): the rows of a followed, entry by entry, by the
\* rows of b; the row counts must agree.
cat2(a, b) ==
    IF a.rows # b.rows
    THEN Err("ShapeError")
    ELSE Ok(Mat(a.rows, a.cols + b.cols,
                [i \in 1..a.rows |-> [j \in 1..(a.cols + b.cols) |->
                    IF j <= a.cols THEN a.data[i][j] ELSE b.data[i][j - a.cols]]]))

RECURSIVE cat(_)
\* torch::cat(ts, -1) for a non-empty list of tensors, left to right.
cat(ts) ==
    IF Len(ts) = 1 THEN Ok(ts[1])
    ELSE LET front == cat(SubSeq(ts, 1, Len(ts) - 1))
         IN  IF front.err # "none" THEN front ELSE cat2(front.t, ts[Len(ts)])

\* a * b with broadcasting over both axes (an axis of size 1 is repeated).
mul(a, b) ==
    IF \/ (a.rows # b.rows /\ a.rows # 1 /\ b.rows # 1)
       \/ (a.cols # b.cols /\ a.cols # 1 /\ b.cols # 1)
    THEN Err("ShapeError")
    ELSE LET r == IF a.rows = 1 THEN b.rows ELSE a.rows
             c == IF a.cols = 1 THEN b.cols ELSE a.cols
         IN  Ok(Mat(r, c, [i \in 1..r |-> [j \in 1..c |->
                  a.data[IF a.rows = 1 THEN 1 ELSE i][IF a.cols = 1 THEN 1 ELSE j]
                  * b.data[IF b.rows = 1 THEN 1 ELSE i][IF b.cols = 1 THEN 1 ELSE j]]]))

RECURSIVE index_add_from_overwrite(_, _, _, _)
\* index_add_from with the row copied over the target row (index_copy_).
index_add_from_overwrite(self, index, source, from) ==
    IF from > Len(index) THEN self
    ELSE index_add_from_overwrite(
             [self EXCEPT !.data[index[from] + 1] = source.data[from]],
             index, source, from + 1)

RECURSIVE index_add_from(_, _, _, _)
\* The accumulation loop of index_add_: source row e is added to row
\* index[e] of self, for e = from .. Len(index), in that order.
index_add_from(self, index, source, from) ==
    IF from > Len(index) THEN self
    ELSE index_add_from(
             [self EXCEPT !.data[index[from] + 1] =
                 [j \in 1..self.cols |-> @[j] + source.data[from][j]]],
             index, source, from + 1)

\* self.index_add_(0, index, source)
index_add_(self, index, source) ==
    IF Len(index) # source.rows \/ source.cols # self.cols
    THEN Err("ShapeError")
    ELSE IF \E i \in 1..Len(index) : index[i] < 0 \/ index[i] >= self.rows
    THEN Err("IndexError")
    ELSE Ok(index_add_from(self, index, source, 1))

\* edge_index.flip(0): the source row and the target row change places.
flip(edge_index) == <<edge_index[2], edge_index[1]>>

RECURSIVE RowSum(_)
RowSum(row) == IF Len(row) = 0 THEN 0 ELSE row[1] + RowSum(Tail(row))

\* ------------------------------------------------------------ MLPImpl
\* The exception every constructor check throws (std::invalid_argument).
ConfigError == "invalid_argument"

Failed(e) == [err |-> e, obj |-> <<>>]

\* No constructor has run yet.
Unbuilt == [err |-> "unbuilt", obj |-> <<>>]

Built(o) == [err |-> "none", obj |-> o]

\* The Linear layers a constructed MLPImpl holds, as <<in_features,
\* out_features>> pairs in the order they were pushed; the normalisation,
\* activation and dropout layers between them keep the shape.
MLPLayers(input_size, hidden_sizes, output_size) ==
    <<<<input_size, hidden_sizes[1]>>>>
    \o [i \in 1..(Len(hidden_sizes) - 1) |-> <<hidden_sizes[i], hidden_sizes[i + 1]>>]
    \o <<<<hidden_sizes[Len(hidden_sizes)], output_size>>>>

\* MLPImpl with the hidden sizes checked against zero only.
MLPImpl_zero_hidden(input_size, hidden_sizes, output_size) ==
    IF input_size < 1 THEN Failed(ConfigError)
    ELSE IF output_size < 1 THEN Failed(ConfigError)
    ELSE IF Len(hidden_sizes) = 0 THEN Failed(ConfigError)
    ELSE IF \E i \in 1..Len(hidden_sizes) : hidden_sizes[i] < 0 THEN Failed(ConfigError)
    ELSE Built([model |-> MLPLayers(input_size, hidden_sizes, output_size)])

\* MLPImpl::MLPImpl: the four checks in the order of the source, then the
\* layer stack.
MLPImpl(input_size, hidden_sizes, output_size) ==
    IF input_size < 1 THEN Failed(ConfigError)
    ELSE IF output_size < 1 THEN Failed(ConfigError)
    ELSE IF Len(hidden_sizes) = 0 THEN Failed(ConfigError)
    ELSE IF \E i \in 1..Len(hidden_sizes) : hidden_sizes[i] < 1 THEN Failed(ConfigError)
    ELSE Built([model |-> MLPLayers(input_size, hidden_sizes, output_size)])

\* Linear with no check of the width of x.
Linear_unchecked(layer, x) ==
    Ok(Mat(x.rows, layer[2],
           [i \in 1..x.rows |-> [j \in 1..layer[2] |-> (RowSum(x.data[i]) + j) % 5]]))

\* One Linear layer: the width of x must be in_features; the result has
\* out_features columns.  The learned weights are not represented: every
\* output entry is a fixed function of its input row and its column.
Linear(layer, x) ==
    IF x.cols # layer[1]
    THEN Err("ShapeError")
    ELSE Ok(Mat(x.rows, layer[2],
                [i \in 1..x.rows |-> [j \in 1..layer[2] |-> (RowSum(x.data[i]) + j) % 5]]))

RECURSIVE SequentialForward(_, _)
\* Sequential::forward: the layers applied in order.
SequentialForward(layers, x) ==
    IF Len(layers) = 0 THEN Ok(x)
    ELSE LET y == Linear(layers[1], x)
         IN  IF y.err # "none" THEN y ELSE SequentialForward(Tail(layers), y.t)

\* MLPImpl::forward
MLPForward(mlp, x) == SequentialForward(mlp.model, x)

\* ---------------------------------------------------------- GATConvImpl
\* GATConvImpl with node_attr counted four times in the block width.
GATConvImpl_narrow(input_node_attr_size, hidden_sizes, output_node_attr_size, initial_node_attr_size, edge_attr_size) ==
    IF input_node_attr_size < 1 THEN Failed(ConfigError)
    ELSE IF output_node_attr_size < 1 THEN Failed(ConfigError)
    ELSE IF initial_node_attr_size < 1 THEN Failed(ConfigError)
    ELSE IF edge_attr_size < 1 THEN Failed(ConfigError)
    ELSE IF Len(hidden_sizes) = 0 THEN Failed(ConfigError)
    ELSE IF \E i \in 1..Len(hidden_sizes) : hidden_sizes[i] < 1 THEN Failed(ConfigError)
    ELSE LET mlp == MLPImpl(4 * input_node_attr_size + initial_node_attr_size
                                + 4 * edge_attr_size,
                            hidden_sizes, output_node_attr_size)
         IN  IF mlp.err # "none" THEN mlp ELSE Built([mlp |-> mlp.obj])

\* GATConvImpl::GATConvImpl: six checks, then the dense block whose input
\* width is fixed by the constructor arguments.
GATConvImpl(input_node_attr_size, hidden_sizes, output_node_attr_size, initial_node_attr_size, edge_attr_size) ==
    IF input_node_attr_size < 1 THEN Failed(ConfigError)
    ELSE IF output_node_attr_size < 1 THEN Failed(ConfigError)
    ELSE IF initial_node_attr_size < 1 THEN Failed(ConfigError)
    ELSE IF edge_attr_size < 1 THEN Failed(ConfigError)
    ELSE IF Len(hidden_sizes) = 0 THEN Failed(ConfigError)
    ELSE IF \E i \in 1..Len(hidden_sizes) : hidden_sizes[i] < 1 THEN Failed(ConfigError)
    ELSE LET mlp == MLPImpl(5 * input_node_attr_size + initial_node_attr_size
                                + 4 * edge_attr_size,
                            hidden_sizes, output_node_attr_size)
         IN  IF mlp.err # "none" THEN mlp ELSE Built([mlp |-> mlp.obj])

\* message with the edge features appended at every hop.
message_every_hop(edge_index, node_attr, edge_attr, edge_weight, hop) ==
    LET source_nodes == edge_index[1]
        node_attr_j == index_select(node_attr, source_nodes)
    IN  IF node_attr_j.err # "none" THEN node_attr_j
        ELSE LET joined == cat(<<node_attr_j.t, edge_attr>>)
             IN  IF joined.err # "none" THEN joined ELSE mul(edge_weight, joined.t)

\* GATConvImpl::message
message(edge_index, node_attr, edge_attr, edge_weight, hop) ==
    LET source_nodes == edge_index[1]
        node_attr_j == index_select(node_attr, source_nodes)
    IN  IF node_attr_j.err # "none" THEN node_attr_j
        ELSE IF hop = 1
        THEN LET joined == cat(<<node_attr_j.t, edge_attr>>)
             IN  IF joined.err # "none" THEN joined ELSE mul(edge_weight, joined.t)
        ELSE mul(edge_weight, node_attr_j.t)

\* aggregate scattering over the source row of edge_index.
aggregate_by_source(edge_index, messages, num_nodes) ==
    LET target_nodes == edge_index[1]
    IN  index_add_(zeros(num_nodes, messages.cols), target_nodes, messages)

\* GATConvImpl::aggregate
aggregate(edge_index, messages, num_nodes) ==
    LET target_nodes == edge_index[2]
    IN  index_add_(zeros(num_nodes, messages.cols), target_nodes, messages)

\* propagate over the edges whose end points are nodes, the others dropped.
propagate_dropping(edge_index, node_attr, edge_attr, edge_weight, hop) ==
    LET ok(e) == /\ edge_index[1][e] >= 0 /\ edge_index[1][e] < node_attr.rows
                 /\ edge_index[2][e] >= 0 /\ edge_index[2][e] < node_attr.rows
        kept == SelectSeq([e \in 1..Len(edge_index[1]) |-> e], ok)
        index == <<[i \in 1..Len(kept) |-> edge_index[1][kept[i]]],
                   [i \in 1..Len(kept) |-> edge_index[2][kept[i]]]>>
        attr == Mat(Len(kept), edge_attr.cols, [i \in 1..Len(kept) |-> edge_attr.data[kept[i]]])
        weight == Mat(Len(kept), 1, [i \in 1..Len(kept) |-> edge_weight.data[kept[i]]])
        messages == message(index, node_attr, attr, weight, hop)
    IN  IF messages.err # "none" THEN messages
        ELSE aggregate(index, messages.t, node_attr.rows)

\* GATConvImpl::propagate
propagate(edge_index, node_attr, edge_attr, edge_weight, hop) ==
    LET messages == message(edge_index, node_attr, edge_attr, edge_weight, hop)
    IN  IF messages.err # "none" THEN messages
        ELSE aggregate(edge_index, messages.t, node_attr.rows)

\* The locals of a forward call that threw before computing them.
NoHops ==
    [one_hop_incoming |-> NoTensor, one_hop_outgoing |-> NoTensor,
     two_hop_incoming |-> NoTensor, two_hop_outgoing |-> NoTensor]

\* A forward call that threw e, with the locals it had computed by then.
Raised(e, hops) == [err |-> e, combined |-> NoTensor, t |-> NoTensor] @@ hops

\* GATConvImpl::forward: the four propagations in the order of the source,
\* the concatenation, the dense block.  The result carries the locals of
\* the call beside the returned tensor t.
GATConvForward(conv, edge_index, node_attr, edge_attr, edge_weight, initial_node_attr) ==
    LET reversed_edge_index == flip(edge_index)
        one_hop_incoming == propagate(edge_index, node_attr, edge_attr, edge_weight, 1)
    IN
    IF one_hop_incoming.err # "none" THEN Raised(one_hop_incoming.err, NoHops)
    ELSE
    LET one_hop_outgoing == propagate(reversed_edge_index, node_attr, edge_attr, edge_weight, 1)
    IN
    IF one_hop_outgoing.err # "none" THEN Raised(one_hop_outgoing.err, NoHops)
    ELSE
    LET two_hop_incoming == propagate(edge_index, one_hop_incoming.t, edge_attr, edge_weight, 2)
    IN
    IF two_hop_incoming.err # "none" THEN Raised(two_hop_incoming.err, NoHops)
    ELSE
    LET two_hop_outgoing == propagate(reversed_edge_index, one_hop_outgoing.t, edge_attr,
                                      edge_weight, 2)
    IN
    IF two_hop_outgoing.err # "none" THEN Raised(two_hop_outgoing.err, NoHops)
    ELSE
    LET hops == [one_hop_incoming |-> one_hop_incoming.t,
                 one_hop_outgoing |-> one_hop_outgoing.t,
                 two_hop_incoming |-> two_hop_incoming.t,
                 two_hop_outgoing |-> two_hop_outgoing.t]
        combined == cat(<<initial_node_attr, node_attr,
                          one_hop_incoming.t, one_hop_outgoing.t,
                          two_hop_incoming.t, two_hop_outgoing.t>>)
    IN
    IF combined.err # "none" THEN Raised(combined.err, hops)
    ELSE
    LET out == MLPForward(conv.mlp, combined.t)
    IN  [err |-> out.err, combined |-> combined.t, t |-> out.t] @@ hops

\* --------------------------------------------------------------- NNImpl
\* NNImpl::NNImpl: the two convolutions and the reducer are constructed in
\* this order, an exception of any of them leaves the constructor; then k
\* is stored as given.
NNImpl(node_attr_size, hidden_sizes_1, hidden_sizes_2, hidden_sizes_mlp, output_node_attr_size, edge_attr_size, k) ==
    LET gatconv1 == GATConvImpl(node_attr_size, hidden_sizes_1, output_node_attr_size,
                                node_attr_size, edge_attr_size)
    IN
    IF gatconv1.err # "none" THEN Failed(gatconv1.err)
    ELSE
    LET gatconv2 == GATConvImpl(output_node_attr_size, hidden_sizes_2, output_node_attr_size,
                                node_attr_size, edge_attr_size)
    IN
    IF gatconv2.err # "none" THEN Failed(gatconv2.err)
    ELSE
    LET mlp == MLPImpl(2 * output_node_attr_size, hidden_sizes_mlp, 1)
    IN
    IF mlp.err # "none" THEN Failed(mlp.err)
    ELSE Built([gatconv1 |-> gatconv1.obj, gatconv2 |-> gatconv2.obj, mlp |-> mlp.obj,
                k |-> k])

\* The last four statements of NNImpl::forward: the embeddings of the two
\* end points of every edge, side by side, through the reducer.
NNReduce(model, edge_index, output_node_attr) ==
    LET source_nodes == edge_index[1]
        node_attr_1 == index_select(output_node_attr, source_nodes)
    IN
    IF node_attr_1.err # "none" THEN node_attr_1
    ELSE
    LET target_nodes == edge_index[2]
        node_attr_2 == index_select(output_node_attr, target_nodes)
    IN
    IF node_attr_2.err # "none" THEN node_attr_2
    ELSE
    LET output_edge_attr == cat(<<node_attr_1.t, node_attr_2.t>>)
    IN
    IF output_edge_attr.err # "none" THEN output_edge_attr
    ELSE MLPForward(model.mlp, output_edge_attr.t)

\* ------------------------------------------------------------- inputs
\* The widths a caller may pass to a constructor, zero among them.
Widths == {0, 1, 2}

\* The widths of the feature matrices of a graph.
GraphWidths == {1, 2}

\* The entries of edge_weight.
Weights == {1, 2}

\* hidden_sizes: every list of at most MaxHiddenLen entries, each 0 or 1.
HiddenLists == UNION {[1..n -> {0, 1}] : n \in 0..MaxHiddenLen}

\* The values an entry of edge_index takes in a graph of n nodes and e
\* edges: every node, and n, which is one past the last; with a single edge
\* also -1.
Indices(n, e) == (IF e = 1 THEN -1 ELSE 0)..n

\* A graph of n nodes and e edges.  Row i of each feature matrix differs
\* from every other row; the edge weights ew and the two index rows are
\* the caller's.
Graph(n, e, src, tgt, wn, wi, we, ew) ==
    [edge_index |-> <<src, tgt>>,
     node_attr |-> Mat(n, wn, [i \in 1..n |-> [j \in 1..wn |-> i + j - 1]]),
     edge_attr |-> Mat(e, we, [i \in 1..e |-> [j \in 1..we |-> 2 * i + j]]),
     edge_weight |-> Mat(e, 1, [i \in 1..e |-> <<ew[i]>>]),
     initial_node_attr |-> Mat(n, wi, [i \in 1..n |-> [j \in 1..wi |-> 3 * i - j]])]

\* -------------------------------------------------------------- state
VARIABLES
    mlp,        \* a stand-alone MLP: the outcome of its constructor
    mlp_args,   \* the arguments that constructor was called with
    conv,       \* a stand-alone GATConv: the outcome of its constructor
    conv_args,  \* the arguments that constructor was called with
    fwd,        \* the forward call made on conv: its arguments and its outcome
    nn,         \* an NN: the outcome of its constructor
    nn_args,    \* the arguments that constructor was called with
    nnf,        \* the forward call made on nn: its position, locals and outcome
    train       \* the training loop of main: its position, counters and optimizer

vars == <<mlp, mlp_args, conv, conv_args, fwd, nn, nn_args, nnf, train>>

NotCalled == [called |-> FALSE]

Idle == [pc |-> "idle"]

NotStarted == [pc |-> "not started"]

\* No module has been constructed and main is not running.
Fresh ==
    /\ mlp = Unbuilt
    /\ mlp_args = <<>>
    /\ conv = Unbuilt
    /\ conv_args = <<>>
    /\ fwd = NotCalled
    /\ nn = Unbuilt
    /\ nn_args = <<>>
    /\ nnf = Idle
    /\ train = NotStarted

\* MLP<>(input_size, hidden_sizes, output_size)
NewMLP ==
    /\ mlp = Unbuilt
    /\ \E i \in Widths, o \in Widths, hs \in HiddenLists :
          /\ mlp_args' = [input_size |-> i, hidden_sizes |-> hs, output_size |-> o]
          /\ mlp' = MLPImpl(i, hs, o)
    /\ UNCHANGED <<conv, conv_args, fwd, nn, nn_args, nnf, train>>

\* GATConv<>(input_node_attr_size, hidden_sizes, output_node_attr_size,
\*           initial_node_attr_size, edge_attr_size)
NewGATConv ==
    /\ conv = Unbuilt
    /\ \E i \in Widths, o \in Widths, n \in Widths, e \in Widths, hs \in HiddenLists :
          /\ conv_args' = [input_node_attr_size |-> i, hidden_sizes |-> hs,
                           output_node_attr_size |-> o, initial_node_attr_size |-> n,
                           edge_attr_size |-> e]
          /\ conv' = GATConvImpl(i, hs, o, n, e)
    /\ UNCHANGED <<mlp, mlp_args, fwd, nn, nn_args, nnf, train>>

\* NN<>(node_attr_size, hidden_sizes_1, hidden_sizes_2, hidden_sizes_mlp,
\*      output_node_attr_size, edge_attr_size, dropout_prob, use_layer_norm, k)
NewNN ==
    /\ nn = Unbuilt
    /\ \E n \in Widths, o \in Widths, e \in Widths, k \in 0..MaxK :
       \E h1 \in HiddenLists, h2 \in HiddenLists, hm \in HiddenLists :
          /\ nn_args' = [node_attr_size |-> n, hidden_sizes_1 |-> h1, hidden_sizes_2 |-> h2,
                         hidden_sizes_mlp |-> hm, output_node_attr_size |-> o,
                         edge_attr_size |-> e, k |-> k]
          /\ nn' = NNImpl(n, h1, h2, hm, o, e, k)
    /\ UNCHANGED <<mlp, mlp_args, conv, conv_args, fwd, nnf, train>>

\* conv->forward(edge_index, node_attr, edge_attr, edge_weight, initial_node_attr)
GATConvCall ==
    /\ conv.err = "none"
    /\ ~fwd.called
    /\ \E n \in 1..MaxNodes, e \in 0..MaxEdges :
       \E src \in [1..e -> Indices(n, e)], tgt \in [1..e -> Indices(n, e)] :
       \E ew \in [1..e -> Weights] :
       \E wn \in GraphWidths, wi \in GraphWidths, we \in GraphWidths :
          LET g == Graph(n, e, src, tgt, wn, wi, we, ew)
          IN  fwd' = [called |-> TRUE, g |-> g,
                      r |-> GATConvForward(conv.obj, g.edge_index, g.node_attr, g.edge_attr,
                                           g.edge_weight, g.initial_node_attr)]
    /\ UNCHANGED <<mlp, mlp_args, conv, conv_args, nn, nn_args, nnf, train>>

\* One application of a convolution inside NNImpl::forward, as the caller
\* sees it: which member, what it was given, what it returned or threw.
Applied(member, node_attr, initial_node_attr, r) ==
    [conv |-> member, node_attr |-> node_attr, initial_node_attr |-> initial_node_attr,
     err |-> r.err, out |-> r.t]

\* model->forward(edge_index, node_attr, edge_attr, edge_weight), up to the
\* loop: the call of gatconv1.  The edge weights are ones, as main's are.
NNForwardCall ==
    /\ nn.err = "none"
    /\ nnf.pc = "idle"
    /\ \E n \in 1..MaxNodes, e \in 0..MaxEdges :
       \E src \in [1..e -> Indices(n, e)], tgt \in [1..e -> Indices(n, e)] :
       \E wn \in GraphWidths, we \in GraphWidths :
       \E g \in {Graph(n, e, src, tgt, wn, wn, we, [x \in 1..e |-> 1])} :
       \E r \in {GATConvForward(nn.obj.gatconv1, g.edge_index, g.node_attr, g.edge_attr,
                                 g.edge_weight, g.node_attr)} :
          nnf' = [pc |-> IF r.err = "none" THEN "loop" ELSE "raised",
                  g |-> g, i |-> 0, output_node_attr |-> r.t, err |-> r.err,
                  pred |-> NoTensor,
                  applied |-> <<Applied("gatconv1", g.node_attr, g.node_attr, r)>>]
    /\ UNCHANGED <<mlp, mlp_args, conv, conv_args, fwd, nn, nn_args, train>>

\* NNForwardLoop with the loop running while i < k.
NNForwardLoop_k_turns ==
    /\ nnf.pc = "loop"
    /\ nnf.i < nn.obj.k
    /\ \E g \in {nnf.g} :
       \E r \in {GATConvForward(nn.obj.gatconv2, g.edge_index, nnf.output_node_attr,
                                 g.edge_attr, g.edge_weight, g.node_attr)} :
          nnf' = [nnf EXCEPT !.pc = IF r.err = "none" THEN "loop" ELSE "raised",
                             !.i = @ + 1,
                             !.output_node_attr = r.t,
                             !.err = r.err,
                             !.applied = Append(@, Applied("gatconv2", nnf.output_node_attr,
                                                           g.node_attr, r))]
    /\ UNCHANGED <<mlp, mlp_args, conv, conv_args, fwd, nn, nn_args, train>>

\* One turn of the loop of NNImpl::forward: the call of gatconv2.
NNForwardLoop ==
    /\ nnf.pc = "loop"
    /\ nnf.i < nn.obj.k - 1
    /\ \E g \in {nnf.g} :
       \E r \in {GATConvForward(nn.obj.gatconv2, g.edge_index, nnf.output_node_attr,
                                 g.edge_attr, g.edge_weight, g.node_attr)} :
          nnf' = [nnf EXCEPT !.pc = IF r.err = "none" THEN "loop" ELSE "raised",
                             !.i = @ + 1,
                             !.output_node_attr = r.t,
                             !.err = r.err,
                             !.applied = Append(@, Applied("gatconv2", nnf.output_node_attr,
                                                           g.node_attr, r))]
    /\ UNCHANGED <<mlp, mlp_args, conv, conv_args, fwd, nn, nn_args, train>>

\* The end of NNImpl::forward: the loop is left and the prediction made.
NNForwardReturn ==
    /\ nnf.pc = "loop"
    /\ ~(nnf.i < nn.obj.k - 1)
    /\ \E r \in {NNReduce(nn.obj, nnf.g.edge_index, nnf.output_node_attr)} :
          nnf' = [nnf EXCEPT !.pc = IF r.err = "none" THEN "returned" ELSE "raised",
                             !.err = r.err,
                             !.pred = r.t]
    /\ UNCHANGED <<mlp, mlp_args, conv, conv_args, fwd, nn, nn_args, train>>

\* ---------------------------------------------------------------- main
\* The number of graphs main generates and trains on.
NumGraphs == 100

\* The default of the parameter k of NNImpl::NNImpl, which main relies on.
DefaultK == 6

\* The model main constructs.
MainModel == NNImpl(3, <<64, 64>>, <<64, 64>>, <<80, 80>>, 32, 3, DefaultK)

\* main up to the epoch loop: num_epochs is read from the configuration,
\* the graphs are generated, the model and the optimizer are constructed.
MainStart ==
    /\ train = NotStarted
    /\ nn = Unbuilt
    /\ MainModel.err = "none"
    /\ nn' = MainModel
    /\ nn_args' = [node_attr_size |-> 3, hidden_sizes_1 |-> <<64, 64>>,
                   hidden_sizes_2 |-> <<64, 64>>, hidden_sizes_mlp |-> <<80, 80>>,
                   output_node_attr_size |-> 32, edge_attr_size |-> 3, k |-> DefaultK]
    /\ \E num_epochs \in 1..MaxEpochs :
          train' = [pc |-> "epoch", num_epochs |-> num_epochs, epoch |-> 0, i |-> 0,
                    params |-> 0, grad |-> 0, steps |-> 0, log |-> <<>>]
    /\ UNCHANGED <<mlp, mlp_args, conv, conv_args, fwd, nnf>>

\* for (int epoch = 0; epoch < num_epochs; ++epoch)
MainEpoch ==
    /\ train.pc = "epoch"
    /\ train' = IF train.epoch < train.num_epochs
                THEN [train EXCEPT !.pc = "example", !.i = 0]
                ELSE [train EXCEPT !.pc = "done"]
    /\ UNCHANGED <<mlp, mlp_args, conv, conv_args, fwd, nn, nn_args, nnf>>

\* for (int i = 0; i < 100; ++i); when the loop is left its counter goes
\* out of scope, the epoch is reported and the epoch counter incremented.
MainExample ==
    /\ train.pc = "example"
    /\ train' = IF train.i < NumGraphs
                THEN [train EXCEPT !.pc = "forward"]
                ELSE [train EXCEPT !.pc = "epoch", !.epoch = @ + 1, !.i = 0]
    /\ UNCHANGED <<mlp, mlp_args, conv, conv_args, fwd, nn, nn_args, nnf>>

\* pred = model->forward(...): the parameters are read, not written.
MainForward ==
    /\ train.pc = "forward"
    /\ train' = [train EXCEPT !.pc = "loss", !.log = <<"forward">>]
    /\ UNCHANGED <<mlp, mlp_args, conv, conv_args, fwd, nn, nn_args, nnf>>

\* loss = loss_fn(pred, graph_edge_labels[i])
MainLoss ==
    /\ train.pc = "loss"
    /\ train' = [train EXCEPT !.pc = "metric", !.log = Append(@, "loss")]
    /\ UNCHANGED <<mlp, mlp_args, conv, conv_args, fwd, nn, nn_args, nnf>>

\* metric = metric_fn(pred, graph_edge_labels[i])
MainMetric ==
    /\ train.pc = "metric"
    /\ train' = [train EXCEPT !.pc = "backward", !.log = Append(@, "metric")]
    /\ UNCHANGED <<mlp, mlp_args, conv, conv_args, fwd, nn, nn_args, nnf>>

\* loss.backward(): the gradient of this example is added to the stored one.
MainBackward ==
    /\ train.pc = "backward"
    /\ train' = [train EXCEPT !.pc = "step", !.grad = @ + 1, !.log = Append(@, "backward")]
    /\ UNCHANGED <<mlp, mlp_args, conv, conv_args, fwd, nn, nn_args, nnf>>

\* opt.step(): the one place the parameters are written.
MainStep ==
    /\ train.pc = "step"
    /\ train' = [train EXCEPT !.pc = "zero_grad", !.params = @ + 1, !.steps = @ + 1,
                              !.log = Append(@, "step")]
    /\ UNCHANGED <<mlp, mlp_args, conv, conv_args, fwd, nn, nn_args, nnf>>

\* MainZeroGrad with the stored gradient left as it is.
MainZeroGrad_kept ==
    /\ train.pc = "zero_grad"
    /\ train' = [train EXCEPT !.pc = "accumulate", !.log = Append(@, "zero_grad")]
    /\ UNCHANGED <<mlp, mlp_args, conv, conv_args, fwd, nn, nn_args, nnf>>

\* opt.zero_grad()
MainZeroGrad ==
    /\ train.pc = "zero_grad"
    /\ train' = [train EXCEPT !.pc = "accumulate", !.grad = 0,
                              !.log = Append(@, "zero_grad")]
    /\ UNCHANGED <<mlp, mlp_args, conv, conv_args, fwd, nn, nn_args, nnf>>

\* epoch_loss += ...; epoch_metric += ...; ++i
MainAccumulate ==
    /\ train.pc = "accumulate"
    /\ train' = [train EXCEPT !.pc = "example", !.i = @ + 1]
    /\ UNCHANGED <<mlp, mlp_args, conv, conv_args, fwd, nn, nn_args, nnf>>

NextMain ==
    \/ MainStart
    \/ MainEpoch
    \/ MainExample
    \/ MainForward
    \/ MainLoss
    \/ MainMetric
    \/ MainBackward
    \/ MainStep
    \/ MainZeroGrad
    \/ MainAccumulate

SpecMain == Fresh /\ [][NextMain]_vars

\* A program that constructs one module of one of the three classes.
NextCtor ==
    \/ mlp = Unbuilt /\ conv = Unbuilt /\ nn = Unbuilt /\ NewMLP
    \/ mlp = Unbuilt /\ conv = Unbuilt /\ nn = Unbuilt /\ NewGATConv
    \/ mlp = Unbuilt /\ conv = Unbuilt /\ nn = Unbuilt /\ NewNN

SpecCtor == Fresh /\ [][NextCtor]_vars

\* A program that constructs a GATConv and calls forward on it.
NextConv == NewGATConv \/ GATConvCall

SpecConv == Fresh /\ [][NextConv]_vars

\* A program that constructs an NN and calls forward on it.
NextNN == NewNN \/ NNForwardCall \/ NNForwardLoop \/ NNForwardReturn

SpecNN == Fresh /\ [][NextNN]_vars

\* ------------------------------------------------- claims on GATConvImpl
\* Every entry of both rows of edge_index lies in [0, N).
InRange(g) ==
    \A r \in 1..2 : \A e \in 1..Len(g.edge_index[r]) :
        g.edge_index[r][e] >= 0 /\ g.edge_index[r][e] < g.node_attr.rows

\* The feature widths of g are the widths conv was constructed with.
WidthsMatch(g, a) ==
    /\ g.node_attr.cols = a.input_node_attr_size
    /\ g.initial_node_attr.cols = a.initial_node_attr_size
    /\ g.edge_attr.cols = a.edge_attr_size

\* The width the dense block of conv was constructed to take.
BlockWidth(a) ==
    5 * a.input_node_attr_size + a.initial_node_attr_size + 4 * a.edge_attr_size

\* C3: when the widths of the graph are the widths the layer was built
\* with, the six blocks, concatenated in the order initial_node_attr,
\* node_attr, one_hop_incoming, one_hop_outgoing, two_hop_incoming,
\* two_hop_outgoing, are exactly as wide as the first layer of the dense
\* block, forward throws no shape error and returns [N, output width].
C3_ConcatWidth ==
    (fwd.called /\ WidthsMatch(fwd.g, conv_args)) =>
        /\ fwd.r.err # "ShapeError"
        /\ InRange(fwd.g) =>
            /\ fwd.r.err = "none"
            /\ fwd.r.combined.cols = BlockWidth(conv_args)
            /\ fwd.r.combined.cols = conv.obj.mlp.model[1][1]
            /\ \A i \in 1..fwd.g.node_attr.rows :
                  fwd.r.combined.data[i] =
                      fwd.g.initial_node_attr.data[i] \o fwd.g.node_attr.data[i]
                      \o fwd.r.one_hop_incoming.data[i] \o fwd.r.one_hop_outgoing.data[i]
                      \o fwd.r.two_hop_incoming.data[i] \o fwd.r.two_hop_outgoing.data[i]
            /\ fwd.r.t.rows = fwd.g.node_attr.rows
            /\ fwd.r.t.cols = conv_args.output_node_attr_size

C3_Witness ==
    /\ fwd.called
    /\ WidthsMatch(fwd.g, conv_args)
    /\ InRange(fwd.g)
    /\ Len(fwd.g.edge_index[1]) = 2
    /\ conv_args.input_node_attr_size # conv_args.initial_node_attr_size
    /\ fwd.r.err = "none"

\* The sum of the widths of the six blocks forward concatenates.
GraphBlockWidth(g) ==
    5 * g.node_attr.cols + g.initial_node_attr.cols + 4 * g.edge_attr.cols

\* C4 as stated: a forward call on a graph one of whose widths differs
\* from the constructed width ends in a shape error.
C4_AnyMismatchRaises ==
    (fwd.called /\ InRange(fwd.g) /\ ~WidthsMatch(fwd.g, conv_args)) =>
        fwd.r.err = "ShapeError"

\* C4, amended: a forward call (on a graph with its indices in range) ends
\* in a shape error exactly when the widths of its six blocks do not add up
\* to the input width of the dense block; a constructor never fails with a
\* shape error.
C4_TotalMismatchRaises ==
    /\ conv.err \in {"unbuilt", "none", ConfigError}
    /\ (fwd.called /\ InRange(fwd.g)) =>
          /\ (GraphBlockWidth(fwd.g) # BlockWidth(conv_args)) <=> (fwd.r.err = "ShapeError")
          /\ (GraphBlockWidth(fwd.g) = BlockWidth(conv_args)) <=> (fwd.r.err = "none")

C4_Witness ==
    /\ fwd.called
    /\ InRange(fwd.g)
    /\ fwd.g.edge_attr.cols # conv_args.edge_attr_size
    /\ fwd.r.err = "ShapeError"

RECURSIVE SumOver(_, _, _)
\* The sum of column j of the rows of m whose number is in the set es.
SumOver(es, m, j) ==
    IF es = {} THEN 0
    ELSE LET e == CHOOSE x \in es : TRUE
         IN  m.data[e][j] + SumOver(es \ {e}, m, j)

\* out is the scatter-sum of the messages m over the index row target.
IsScatterSum(out, target, m, num_nodes) ==
    /\ out.rows = num_nodes
    /\ out.cols = m.cols
    /\ \A n \in 1..num_nodes : \A j \in 1..m.cols :
          out.data[n][j] = SumOver({e \in 1..Len(target) : target[e] = n - 1}, m, j)

\* C5: each of the four aggregations of a forward call returns num_nodes
\* rows of the width of the messages, row n being the sum of the messages
\* of exactly the edges whose target is n; a node that is the target of no
\* edge gets the zero vector.
C5_AggregateSums ==
    (fwd.called /\ InRange(fwd.g)) =>
        LET g == fwd.g
            n == g.node_attr.rows
            rev == flip(g.edge_index)
            m1in == message(g.edge_index, g.node_attr, g.edge_attr, g.edge_weight, 1)
            m1out == message(rev, g.node_attr, g.edge_attr, g.edge_weight, 1)
            m2in == message(g.edge_index, fwd.r.one_hop_incoming, g.edge_attr,
                            g.edge_weight, 2)
            m2out == message(rev, fwd.r.one_hop_outgoing, g.edge_attr, g.edge_weight, 2)
        IN  /\ IsScatterSum(fwd.r.one_hop_incoming, g.edge_index[2], m1in.t, n)
            /\ IsScatterSum(fwd.r.one_hop_outgoing, g.edge_index[1], m1out.t, n)
            /\ IsScatterSum(fwd.r.two_hop_incoming, g.edge_index[2], m2in.t, n)
            /\ IsScatterSum(fwd.r.two_hop_outgoing, g.edge_index[1], m2out.t, n)
            /\ \A v \in 1..n :
                  (\A e \in 1..Len(g.edge_index[2]) : g.edge_index[2][e] # v - 1) =>
                      /\ \A j \in 1..fwd.r.one_hop_incoming.cols :
                            fwd.r.one_hop_incoming.data[v][j] = 0
                      /\ \A j \in 1..fwd.r.two_hop_incoming.cols :
                            fwd.r.two_hop_incoming.data[v][j] = 0

\* Two edges with the same target, and a node that is the target of none.
C5_Witness ==
    /\ fwd.called
    /\ InRange(fwd.g)
    /\ fwd.g.node_attr.rows = 2
    /\ fwd.g.edge_index[2] = <<1, 1>>
    /\ fwd.g.edge_index[1] = <<0, 1>>
    /\ fwd.r.one_hop_incoming.data[1][1] = 0
    /\ fwd.r.one_hop_incoming.data[2][1] > 0

\* The permutations of 1..n.
Perms(n) == {p \in [1..n -> 1..n] : \A i \in 1..n, j \in 1..n : p[i] = p[j] => i = j}

\* g with its edges listed in the order p: the columns of edge_index, the
\* rows of edge_attr and the entries of edge_weight move together.
Permuted(g, p) ==
    [g EXCEPT !.edge_index = <<[e \in 1..Len(p) |-> g.edge_index[1][p[e]]],
                               [e \in 1..Len(p) |-> g.edge_index[2][p[e]]]>>,
              !.edge_attr.data = [e \in 1..Len(p) |-> g.edge_attr.data[p[e]]],
              !.edge_weight.data = [e \in 1..Len(p) |-> g.edge_weight.data[p[e]]]]

\* C6: listing the edges of the graph in any other order, edge_attr and
\* edge_weight in step with edge_index, changes neither the result of
\* propagate at hop 1 or at hop 2 nor the outcome of forward.
C6_EdgeOrderInvariant ==
    fwd.called =>
        \A p \in Perms(Len(fwd.g.edge_index[1])) :
            LET g == fwd.g
                pg == Permuted(fwd.g, p)
            IN  /\ propagate(pg.edge_index, pg.node_attr, pg.edge_attr, pg.edge_weight, 1)
                      = propagate(g.edge_index, g.node_attr, g.edge_attr, g.edge_weight, 1)
                /\ propagate(pg.edge_index, fwd.r.one_hop_incoming, pg.edge_attr,
                             pg.edge_weight, 2)
                      = propagate(g.edge_index, fwd.r.one_hop_incoming, g.edge_attr,
                                  g.edge_weight, 2)
                /\ GATConvForward(conv.obj, pg.edge_index, pg.node_attr, pg.edge_attr,
                                  pg.edge_weight, pg.initial_node_attr) = fwd.r

\* Two different edges into the same node, with different weights.
C6_Witness ==
    /\ fwd.called
    /\ fwd.r.err = "none"
    /\ fwd.g.node_attr.rows = 2
    /\ fwd.g.edge_index = <<<<0, 1>>, <<1, 1>>>>
    /\ fwd.g.edge_weight.data = <<<<1>>, <<2>>>>

\* The hop arguments other than 1 the claim on message is checked for.
OtherHops == {0, 2, 3}

\* C9: at hop 1 the message of edge e is edge_weight[e] times the features
\* of its source node followed by edge_attr[e]; at any other hop it is
\* edge_weight[e] times the features of its source node alone; so inside
\* forward the hop-2 messages and aggregates are as wide as the hop-1 ones,
\* the width of node_attr plus the width of edge_attr.
C9_MessageShape ==
    (fwd.called /\ InRange(fwd.g)) =>
        LET g == fwd.g
            src == g.edge_index[1]
            wn == g.node_attr.cols
            we == g.edge_attr.cols
            m1 == message(g.edge_index, g.node_attr, g.edge_attr, g.edge_weight, 1)
            m2 == message(g.edge_index, fwd.r.one_hop_incoming, g.edge_attr, g.edge_weight, 2)
        IN  /\ m1.err = "none"
            /\ m1.t.rows = Len(src)
            /\ m1.t.cols = wn + we
            /\ \A e \in 1..Len(src) : \A j \in 1..(wn + we) :
                  m1.t.data[e][j] =
                      g.edge_weight.data[e][1]
                      * (IF j <= wn THEN g.node_attr.data[src[e] + 1][j]
                         ELSE g.edge_attr.data[e][j - wn])
            /\ \A hop \in OtherHops :
                  LET m == message(g.edge_index, g.node_attr, g.edge_attr, g.edge_weight, hop)
                  IN  /\ m.err = "none"
                      /\ m.t.rows = Len(src)
                      /\ m.t.cols = wn
                      /\ \A e \in 1..Len(src) : \A j \in 1..wn :
                            m.t.data[e][j] =
                                g.edge_weight.data[e][1] * g.node_attr.data[src[e] + 1][j]
            /\ m2.err = "none"
            /\ m2.t.cols = m1.t.cols
            /\ fwd.r.one_hop_incoming.cols = wn + we
            /\ fwd.r.two_hop_incoming.cols = wn + we
            /\ fwd.r.two_hop_outgoing.cols = fwd.r.one_hop_outgoing.cols

C9_Witness ==
    /\ fwd.called
    /\ InRange(fwd.g)
    /\ fwd.g.node_attr.rows = 2
    /\ Len(fwd.g.edge_index[1]) = 2
    /\ fwd.g.edge_attr.cols = 2
    /\ fwd.g.node_attr.cols = 1
    /\ fwd.r.two_hop_incoming.cols = 3
    /\ fwd.r.two_hop_incoming.data[2][3] > 0

\* --------------------------------------------- claims on the constructors
\* hidden_sizes is empty or holds a size below one.
BadHidden(hs) == Len(hs) = 0 \/ \E i \in 1..Len(hs) : hs[i] < 1

C1_KBelowOneRejected ==
    /\ (nn.err # "unbuilt" /\ nn_args.k < 1) => nn.err = ConfigError
    /\ nnf.pc # "idle" => nn.obj.k >= 1

\* ------------------------------------------------------ claims on NNImpl
\* C2: for k >= 1, forward applies gatconv1 once, first, then gatconv2,
\* k - 1 times when it returns and never when k = 1; every application is
\* given the caller's node_attr as initial_node_attr, the first one the
\* caller's node_attr and each later one the embedding the one before it
\* returned.
C2_ConvSequence ==
    (nnf.pc # "idle" /\ nn.obj.k >= 1) =>
        LET ap == nnf.applied
        IN  /\ Len(ap) >= 1
            /\ Len(ap) <= nn.obj.k
            /\ Len(ap) = nnf.i + 1
            /\ nnf.pc = "returned" => Len(ap) = nn.obj.k
            /\ ap[1].conv = "gatconv1"
            /\ ap[1].node_attr = nnf.g.node_attr
            /\ \A j \in 2..Len(ap) :
                  /\ ap[j].conv = "gatconv2"
                  /\ ap[j - 1].err = "none"
                  /\ ap[j].node_attr = ap[j - 1].out
            /\ \A j \in 1..Len(ap) : ap[j].initial_node_attr = nnf.g.node_attr
            /\ nnf.pc = "loop" => nnf.output_node_attr = ap[Len(ap)].out

\* A forward pass with k = 3 that returned: gatconv2 was applied twice, to
\* an embedding that is not the caller's node_attr.
C2_Witness ==
    /\ nnf.pc = "returned"
    /\ nn.obj.k = 3
    /\ Len(nnf.applied) = 3
    /\ Len(nnf.g.edge_index[1]) = 2
    /\ nnf.applied[3].conv = "gatconv2"
    /\ nnf.applied[3].node_attr # nnf.g.node_attr

\* C8: when an entry of edge_index lies outside [0, N), the forward call of
\* gatconv1 ends in an index error, and with it the forward call of the NN:
\* no embedding and no prediction is returned.
C8_IndexOutOfRange ==
    (nnf.pc # "idle" /\ ~InRange(nnf.g)) =>
        /\ nnf.pc = "raised"
        /\ nnf.err = "IndexError"
        /\ Len(nnf.applied) = 1
        /\ nnf.applied[1].err = "IndexError"
        /\ nnf.applied[1].out = NoTensor
        /\ nnf.pred = NoTensor

\* A first edge between two nodes, a second one whose target is no node.
C8_Witness ==
    /\ nnf.pc = "raised"
    /\ nnf.g.node_attr.rows = 2
    /\ nnf.g.edge_index = <<<<0, 1>>, <<1, 2>>>>
    /\ nnf.err = "IndexError"

\* -------------------------------------------------------- claims on main
\* The steps of one example, in the order of the source.
ExampleOrder == <<"forward", "loss", "metric", "backward", "step", "zero_grad">>

\* C10: for every graph of every epoch the steps are taken in the order
\* forward, loss, metric, backward, one optimizer step, zero_grad; the
\* parameters are written by the optimizer step only, once per example; no
\* gradient is stored when a forward pass starts; and when main is done the
\* optimizer has stepped num_epochs times the number of graphs.
C10_TrainingCycle ==
    train.pc # "not started" =>
        /\ train.log = SubSeq(ExampleOrder, 1, Len(train.log))
        /\ train.pc = "accumulate" => train.log = ExampleOrder
        /\ train.pc = "loss" => train.log = <<"forward">>
        /\ train.params = train.steps
        /\ train.steps = train.epoch * NumGraphs + train.i
                            + (IF train.pc \in {"zero_grad", "accumulate"} THEN 1 ELSE 0)
        /\ train.pc = "forward" => train.grad = 0
        /\ train.pc = "step" => train.grad = 1
        /\ train.pc = "done" => train.steps = train.num_epochs * NumGraphs

C10_Witness ==
    /\ train.pc = "done"
    /\ train.num_epochs = 2
    /\ train.steps = 200
    /\ train.params = 200

====
